---- MODULE Spec2Model ----
(***************************************************************************)
(* Model of the Raspberry Pi status monitor (src/src/index.tsx).           *)
(*                                                                         *)
(* The multi-Pi hook useRaspberryPiStatus is modelled as a state machine:  *)
(* the effect starts a poll cycle and arms an interval timer, every tick   *)
(* starts another cycle, every cycle pings all Pis in parallel and         *)
(* publishes with setStatuses once Promise.all has every result.           *)
(* pingHost and getReadableError are operators over the outcome of the     *)
(* exec'd ping command.  A text (stdout, stderr, an error message) is      *)
(* modelled as the set of phrases it contains; the empty set is "".        *)
(* The hook of the single-Pi version (one ping every 10 seconds and a      *)
(* useFetch of the Zigbee2MQTT page) is a second state machine over the    *)
(* same lifecycle, clock and timer.                                        *)
(***************************************************************************)
EXTENDS Integers, Sequences, FiniteSets, TLC

VARIABLES phase, now, timer, cycles, statuses, clipboard, probeIn, probeOut,
          pingStatus, zigbee, checks

\* the state of the hook of the single-Pi version
singleVars == <<pingStatus, zigbee, checks>>

vars == <<phase, now, timer, cycles, statuses, clipboard, probeIn, probeOut, singleVars>>

(***************************************************************************)
(* Bounds of the model.                                                    *)
(***************************************************************************)
\* number of registry entries that are monitored in the model
NumPis == 2
\* pings that may be spawned in one run, over all cycles
MaxProbes == 5
\* number of times the clock advances in one run
MaxElapse == 1

(***************************************************************************)
(* Program constants.                                                      *)
(***************************************************************************)
REGISTRY ==
    << [ip |-> "192.168.0.15",  name |-> "K3S-Master"],
       [ip |-> "192.168.0.224", name |-> "K3S-Worker-1"],
       [ip |-> "192.168.0.203", name |-> "K3S-Worker-2"],
       [ip |-> "192.168.0.155", name |-> "K3S-Worker-3"],
       [ip |-> "192.168.0.171", name |-> "Pi5-4gb-64gb-2"] >>

RASPBERRY_PIS == SubSeq(REGISTRY, 1, NumPis)

Targets == 1..Len(RASPBERRY_PIS)

\* setInterval(checkPings, 100000)
INTERVAL_MS == 100000
\* setInterval(checkPing, 10000) of the single-Pi version
INTERVAL_MS_SINGLE == 10000

(***************************************************************************)
(* Texts.                                                                  *)
(***************************************************************************)
P_TRANSMITTED == "1 packets transmitted"
P_LOSS == "100.0% packet loss"
P_NOT_FOUND == "command not found"
P_NAME_UNKNOWN == "Name or service not known"
P_OTHER == "other text"
P_COMMAND_FAILED == "Command failed"
P_ERROR_PREFIX == "Error: "

\* String.prototype.includes
Includes(text, phrase) == phrase \in text

\* the value undefined, kept apart from the empty text ""
Undefined == {"undefined"}

MSG_UNREACHABLE ==
    {"Pi is unreachable. Please check if: Pi is powered on, Connected to the network, IP address is correct"}
MSG_NO_PING == {"Ping command not available. Please check system configuration."}
MSG_INVALID_IP == {"Invalid IP address format"}
MSG_CONNECTION == {"Connection failed. Check network connectivity."}

TroubleshootingStrings == {MSG_UNREACHABLE, MSG_NO_PING, MSG_INVALID_IP, MSG_CONNECTION}

(***************************************************************************)
(* Outcomes of execAsync(`/sbin/ping -c 1 -t 1 host`).  A returned outcome *)
(* resolves with stdout and stderr; a thrown outcome rejects with an Error *)
(* whose message holds the command line and stderr, and which carries the  *)
(* stdout of the command as a property.                                    *)
(***************************************************************************)
StdoutTexts == SUBSET {P_TRANSMITTED, P_LOSS}
StderrTexts == SUBSET {P_NOT_FOUND, P_NAME_UNKNOWN, P_OTHER}
MessageTexts == {{P_COMMAND_FAILED} \cup t : t \in SUBSET {P_NOT_FOUND, P_NAME_UNKNOWN}}

ReturnedOutcomes ==
    [threw : {FALSE}, stdout : StdoutTexts, stderr : StderrTexts, message : {{}}]
ThrownOutcomes ==
    [threw : {TRUE}, stdout : StdoutTexts, stderr : {{}}, message : MessageTexts]
ExecOutcomes == ReturnedOutcomes \cup ThrownOutcomes

\* the outcomes the probes of the poll cycles are drawn from: a reply, a
\* command that returns with text on stderr, and a command that exits
\* non-zero after total loss (exec rejects)
PollOutcomes ==
    { [threw |-> FALSE, stdout |-> {P_TRANSMITTED}, stderr |-> {}, message |-> {}],
      [threw |-> FALSE, stdout |-> {P_TRANSMITTED}, stderr |-> {P_OTHER}, message |-> {}],
      [threw |-> TRUE, stdout |-> {P_TRANSMITTED, P_LOSS}, stderr |-> {},
       message |-> {P_COMMAND_FAILED}] }

\* the first argument of getReadableError: a string (stderr) or an Error
StringValue(text) == [isError |-> FALSE, message |-> text]
ErrorValue(text) == [isError |-> TRUE, message |-> text]

(***************************************************************************)
(* getReadableError(error, stdout)                                         *)
(***************************************************************************)
getReadableError(error, stdout) ==
    IF Includes(stdout, P_LOSS) THEN MSG_UNREACHABLE
    ELSE IF error.isError /\ Includes(error.message, P_NOT_FOUND) THEN MSG_NO_PING
    ELSE IF error.isError /\ Includes(error.message, P_NAME_UNKNOWN) THEN MSG_INVALID_IP
    ELSE MSG_CONNECTION

\* isSuccess without the check for total loss
isSuccessIgnoresLoss(stdout, stderr) ==
    /\ stderr = {}
    /\ Includes(stdout, P_TRANSMITTED)

\* const isSuccess = !stderr && stdout.includes(...) && !stdout.includes(...)
isSuccess(stdout, stderr) ==
    /\ stderr = {}
    /\ Includes(stdout, P_TRANSMITTED)
    /\ ~Includes(stdout, P_LOSS)

\* pingHost whose catch clause lets the error of the exec'd command escape
pingHostRethrows(o) ==
    IF ~o.threw
    THEN [rejected |-> FALSE,
          success |-> isSuccess(o.stdout, o.stderr),
          error |-> IF isSuccess(o.stdout, o.stderr) THEN Undefined
                    ELSE getReadableError(StringValue(o.stderr), o.stdout)]
    ELSE [rejected |-> TRUE, success |-> FALSE, error |-> Undefined]

(***************************************************************************)
(* pingHost(host) of the multi-Pi version, as a function of the outcome o  *)
(* of the exec'd command.  rejected tells whether the promise of pingHost  *)
(* rejects; the catch clause makes it resolve on every path.               *)
(***************************************************************************)
pingHost(o) ==
    IF ~o.threw
    THEN [rejected |-> FALSE,
          success |-> isSuccess(o.stdout, o.stderr),
          error |-> IF isSuccess(o.stdout, o.stderr) THEN Undefined
                    ELSE getReadableError(StringValue(o.stderr), o.stdout)]
    ELSE [rejected |-> FALSE,
          success |-> FALSE,
          error |-> getReadableError(ErrorValue(o.message), {})]

\* String(error) of an Error object
StringOfError(message) == {P_ERROR_PREFIX} \cup message

\* stderr || undefined
OrUndefined(text) == IF text = {} THEN Undefined ELSE text

(***************************************************************************)
(* pingHost(host) of the single-Pi version                                 *)
(***************************************************************************)
pingHostSingle(o) ==
    IF ~o.threw
    THEN [rejected |-> FALSE,
          success |-> isSuccess(o.stdout, o.stderr),
          error |-> OrUndefined(o.stderr)]
    ELSE IF Includes(o.message, P_NOT_FOUND)
         THEN [rejected |-> FALSE, success |-> FALSE, error |-> MSG_NO_PING]
         ELSE [rejected |-> FALSE, success |-> FALSE, error |-> StringOfError(o.message)]


(***************************************************************************)
(* One poll cycle: a call of checkPings.  slots are the promises of the    *)
(* async callback mapped over RASPBERRY_PIS, in registry order; order is   *)
(* the order in which they settled.                                        *)
(***************************************************************************)
\* the calls of checkPings of one run: each spawns one ping per registry entry
CycleIds == 1..(MaxProbes \div NumPis)

NoValue == [ip |-> "", name |-> "", ping |-> FALSE, error |-> Undefined, lastChecked |-> 0]

PendingSlot == [state |-> "pending", value |-> NoValue]
IdleSlot == [state |-> "idle", value |-> NoValue]

IdleCycle == [status |-> "unstarted", slots |-> [i \in Targets |-> IdleSlot], order |-> <<>>]

\* useState initializer: RASPBERRY_PIS.map(pi => ({...pi, ping: false, lastChecked: new Date()}))
InitialStatuses(t) ==
    [i \in Targets |->
        [ip |-> RASPBERRY_PIS[i].ip, name |-> RASPBERRY_PIS[i].name,
         ping |-> FALSE, error |-> Undefined, lastChecked |-> t]]

\* the value the async callback of the map returns for pi once pingHost resolved
StatusOf(pi, result, t) ==
    [ip |-> pi.ip, name |-> pi.name, ping |-> result.success,
     error |-> result.error, lastChecked |-> t]

\* a callback that pings again, within the cycle, when the ping failed
SettledSlotRetries(pi, o, t) ==
    IF pingHost(o).success
    THEN [state |-> "fulfilled", value |-> StatusOf(pi, pingHost(o), t)]
    ELSE PendingSlot

\* the promise of the async callback for pi, once the exec'd ping ended with o at time t
SettledSlot(pi, o, t) ==
    IF pingHost(o).rejected
    THEN [state |-> "rejected", value |-> NoValue]
    ELSE [state |-> "fulfilled", value |-> StatusOf(pi, pingHost(o), t)]

\* a join that resolves with the first fulfilled promise
AnySettled(slots) == \E i \in Targets : slots[i].state = "fulfilled"

\* a join that resolves only when every target answered
AllOnline(slots) ==
    \A i \in Targets : slots[i].state = "fulfilled" /\ slots[i].value.ping

\* Promise.all resolves once every promise is fulfilled ...
AllSettled(slots) == \A i \in Targets : slots[i].state = "fulfilled"

\* results collected in the order in which the promises settled
PromiseAllBySettling(slots, order) ==
    [k \in Targets |-> IF k \in DOMAIN order THEN slots[order[k]].value ELSE NoValue]

\* results merged into the statuses shown: the entry of a target whose ping
\* failed is kept from the earlier snapshot
PromiseAllMerged(slots, order) ==
    [i \in Targets |-> IF slots[i].value.ping THEN slots[i].value ELSE statuses[i]]

\* ... with the values in the order of the promises, not of their settling
PromiseAll(slots, order) == [i \in Targets |-> slots[i].value]

\* Promise.all rejects as soon as one promise rejects
AnyRejected(slots) == \E i \in Targets : slots[i].state = "rejected"

\* the results array is dropped once handed to setStatuses
Released(slots) == [i \in Targets |-> [state |-> slots[i].state, value |-> NoValue]]

InFlight == {c \in CycleIds : cycles[c].status = "inflight"}
Unstarted == {c \in CycleIds : cycles[c].status = "unstarted"}

\* checkPings() up to its await: every ping is spawned
checkPings(cs, c) ==
    [cs EXCEPT ![c] = [status |-> "inflight",
                       slots |-> [i \in Targets |-> PendingSlot],
                       order |-> <<>>]]

NextCycleId == CHOOSE c \in Unstarted : \A d \in Unstarted : c <= d

(***************************************************************************)
(* The clock, in milliseconds since the first render.                      *)
(***************************************************************************)
\* the clock is observed at the granularity of the polling period
ElapseSteps == {INTERVAL_MS}

\* number of clock advances that lead to time t
Elapsed(t) == t \div INTERVAL_MS

\* the clipboard before any address was copied
NoCopy == ""

NoProbe == [version |-> "none", result |-> [rejected |-> FALSE, success |-> FALSE, error |-> Undefined]]
NoOutcome == [threw |-> FALSE, stdout |-> {}, stderr |-> {}, message |-> {}]

(***************************************************************************)
(* The single-Pi version: one ping every 10 seconds and a fetch of the     *)
(* Zigbee2MQTT page with useFetch.                                         *)
(***************************************************************************)
P_ZIGBEE == "Zigbee2MQTT"
P_HTML == "<html>"
P_FETCH_FAILED == "fetch failed"
P_ABORTED == "The operation was aborted"

Null == {"null"}

\* what the request of useFetch can end with: a response with some body
\* (the empty one included), or a network error or abort
BodyTexts == SUBSET {P_ZIGBEE, P_HTML}
FetchErrors == {{P_FETCH_FAILED}, {P_ABORTED}}
FetchOutcomes ==
    {[ok |-> TRUE, body |-> b, message |-> {}] : b \in BodyTexts}
        \cup {[ok |-> FALSE, body |-> {}, message |-> m] : m \in FetchErrors}

\* zigbeeData and zigbeeError while they are undefined
NoData == [defined |-> FALSE, text |-> {}, isZigbee |-> FALSE]
NoError == [defined |-> FALSE, message |-> {}]

\* parseResponse: {text, isZigbee: text.includes("Zigbee2MQTT")}
parseResponse(body) ==
    [defined |-> TRUE, text |-> body, isZigbee |-> Includes(body, P_ZIGBEE)]

\* the calls of checkPing of one run: the one of the effect and one per tick
CheckIds == 1..(MaxElapse + 1)

\* useState({success: false})
InitialPingStatus == [success |-> FALSE, error |-> Undefined]

\* useFetch before its request ended
FetchLoading == [isLoading |-> TRUE, data |-> NoData, error |-> NoError]

\* no call of checkPing yet.  shown and fetched are bookkeeping: the call of
\* checkPing whose result pingStatus holds, and the call during which the
\* request whose result zigbee holds was issued (0: none yet)
NoChecks == [calls |-> [c \in CheckIds |-> "unstarted"], shown |-> 0, fetched |-> 0]

\* a status whose service is only reachable when the ping succeeded
StatusSingleNeedsPing(ps, z) ==
    [raspberryPi |-> [ping |-> ps.success, error |-> ps.error],
     zigbee2mqtt |->
        [reachable |-> ps.success /\ ~z.error.defined /\ z.data.defined /\ z.data.isZigbee,
         html |-> IF z.data.defined /\ z.data.text # {} THEN z.data.text ELSE Null,
         error |-> IF z.error.defined THEN z.error.message ELSE Undefined]]

\* the status object of the hook; !zigbeeError && zigbeeData?.isZigbee is
\* undefined while there is no data, which the menu shows as not reachable
StatusSingle(ps, z) ==
    [raspberryPi |-> [ping |-> ps.success, error |-> ps.error],
     zigbee2mqtt |->
        [reachable |-> ~z.error.defined /\ z.data.defined /\ z.data.isZigbee,
         html |-> IF z.data.defined /\ z.data.text # {} THEN z.data.text ELSE Null,
         error |-> IF z.error.defined THEN z.error.message ELSE Undefined]]


(***************************************************************************)
(* State after the first render of Command: the hook state holds the       *)
(* initial statuses, the effect has not run yet.                           *)
(***************************************************************************)
Init ==
    /\ phase = "rendered"
    /\ now = 0
    /\ timer = [armed |-> FALSE, nextFire |-> 0]
    /\ cycles = [c \in CycleIds |-> IdleCycle]
    /\ statuses = InitialStatuses(0)
    /\ clipboard = NoCopy
    /\ probeIn = NoOutcome
    /\ probeOut = NoProbe
    /\ pingStatus = InitialPingStatus
    /\ zigbee = FetchLoading
    /\ checks = NoChecks

\* an effect that arms the interval and leaves the first cycle to the first tick
MountDelayed ==
    /\ phase = "rendered"
    /\ phase' = "mounted"
    /\ timer' = [armed |-> TRUE, nextFire |-> now + INTERVAL_MS]
    /\ UNCHANGED <<now, cycles, statuses, probeIn, probeOut, clipboard, singleVars>>

\* the useEffect body: checkPings(); setInterval(checkPings, 100000)
Mount ==
    /\ phase = "rendered"
    /\ phase' = "mounted"
    /\ cycles' = checkPings(cycles, 1)
    /\ timer' = [armed |-> TRUE, nextFire |-> now + INTERVAL_MS]
    /\ UNCHANGED <<now, statuses, probeIn, probeOut, clipboard, singleVars>>

\* the interval fires: checkPings is called whatever the earlier calls are doing
Tick ==
    /\ timer.armed
    /\ now >= timer.nextFire
    /\ Unstarted # {}
    /\ cycles' = checkPings(cycles, NextCycleId)
    /\ timer' = [timer EXCEPT !.nextFire = now + INTERVAL_MS]
    /\ UNCHANGED <<phase, now, statuses, probeIn, probeOut, clipboard, singleVars>>

\* a cleanup that leaves the interval armed
KeptTimer(t) == t

\* the effect cleanup: clearInterval(interval)
ClearedTimer(t) == [armed |-> FALSE, nextFire |-> 0]

Unmount ==
    /\ phase = "mounted"
    /\ phase' = "unmounted"
    /\ timer' = ClearedTimer(timer)
    /\ UNCHANGED <<now, cycles, statuses, probeIn, probeOut, clipboard, singleVars>>

(***************************************************************************)
(* The exec'd ping of target i in cycle c ends with outcome o.  pingHost   *)
(* and the map callback continue in the same turn; if this was the last    *)
(* pending promise, Promise.all resolves and checkPings calls setStatuses. *)
(* Nothing in checkPings looks at whether the component is still mounted:  *)
(* setStatuses is called with the results after the cleanup as before it.  *)
(***************************************************************************)
ProbeDone(c, i, o) ==
    /\ cycles[c].status \in {"inflight", "rejected"}
    /\ cycles[c].slots[i].state = "pending"
    /\ LET slots2 == [cycles[c].slots EXCEPT ![i] = SettledSlot(RASPBERRY_PIS[i], o, now)]
           order2 == Append(cycles[c].order, i)
       IN  IF cycles[c].status = "rejected" \/ AnyRejected(slots2)
           THEN /\ cycles' = [cycles EXCEPT ![c] =
                        [status |-> "rejected", slots |-> slots2, order |-> order2]]
                /\ UNCHANGED statuses
           ELSE IF AllSettled(slots2)
           THEN /\ statuses' = PromiseAll(slots2, order2)
                /\ cycles' = [cycles EXCEPT ![c] =
                        [status |-> "published", slots |-> Released(slots2), order |-> <<>>]]
           ELSE /\ cycles' = [cycles EXCEPT ![c] =
                        [status |-> "inflight", slots |-> slots2, order |-> order2]]
                /\ UNCHANGED statuses
    /\ UNCHANGED <<phase, now, timer, probeIn, probeOut, clipboard, singleVars>>

\* a copy action that also refreshes the statuses
HandleCopyRefreshes(i) ==
    /\ phase = "mounted"
    /\ clipboard' = RASPBERRY_PIS[i].ip
    /\ cycles' = IF Unstarted # {} THEN checkPings(cycles, NextCycleId) ELSE cycles
    /\ UNCHANGED <<phase, now, timer, statuses, probeIn, probeOut, singleVars>>

\* handleCopy(ip), the onAction of the address item of target i:
\* await Clipboard.copy(ip), and nothing else
HandleCopy(i) ==
    /\ phase = "mounted"
    /\ clipboard' = RASPBERRY_PIS[i].ip
    /\ UNCHANGED <<phase, now, timer, cycles, statuses, probeIn, probeOut, singleVars>>

\* One period passes.  The effect runs right after the first render, well
\* within the period in which the initial statuses were stamped.
Elapse(d) ==
    /\ phase # "rendered"
    /\ Elapsed(now + d) <= MaxElapse
    /\ now' = now + d
    /\ UNCHANGED <<phase, timer, cycles, statuses, probeIn, probeOut, clipboard, singleVars>>

Next ==
    \/ Mount
    \/ Tick
    \/ Unmount
    \/ \E c \in CycleIds, i \in Targets, o \in PollOutcomes : ProbeDone(c, i, o)
    \/ \E d \in ElapseSteps : Elapse(d)

Spec == Init /\ [][Next]_vars

\* every exec'd ping eventually ends: the command is run with -c 1 -t 1, so
\* it returns or exits non-zero about a second after it was spawned
PingsEnd ==
    WF_vars(\E c \in CycleIds, i \in Targets, o \in PollOutcomes : ProbeDone(c, i, o))

SpecLive == Init /\ [][Next]_vars /\ PingsEnd

\* the polling engine together with the copy action of the menu
NextCopy ==
    \/ Next
    \/ \E i \in Targets : HandleCopy(i)

SpecCopy == Init /\ [][NextCopy]_vars


(***************************************************************************)
(* Command(): what the menu bar shows for the statuses of the hook.        *)
(***************************************************************************)
\* a filter that keeps the offline statuses
IsDown(status) == ~status.ping

\* statuses.filter(s => s.ping)
IsUp(status) == status.ping

Command(sts) ==
    [icon |-> IF \A i \in DOMAIN sts : sts[i].ping THEN "CircleFilled" ELSE "Circle",
     title |-> [online |-> Len(SelectSeq(sts, IsUp)), total |-> Len(sts)],
     sections |-> [i \in DOMAIN sts |->
                    [name |-> sts[i].name, ip |-> sts[i].ip,
                     subtitle |-> IF sts[i].ping THEN "green" ELSE "red",
                     lastChecked |-> sts[i].lastChecked,
                     troubleshooting |-> sts[i].error]]]

(***************************************************************************)
(* pingHost alone: the outcome of the exec'd command is drawn from         *)
(* ExecOutcomes and one of the two versions of pingHost is applied to it.  *)
(***************************************************************************)
InitProbe ==
    /\ phase = "rendered"
    /\ now = 0
    /\ timer = [armed |-> FALSE, nextFire |-> 0]
    /\ cycles = [c \in CycleIds |-> IdleCycle]
    /\ statuses = InitialStatuses(0)
    /\ clipboard = NoCopy
    /\ probeIn \in ExecOutcomes
    /\ probeOut = NoProbe
    /\ pingStatus = InitialPingStatus
    /\ zigbee = FetchLoading
    /\ checks = NoChecks

RunPingHost ==
    /\ probeOut.version = "none"
    /\ probeOut' = [version |-> "multi", result |-> pingHost(probeIn)]
    /\ UNCHANGED <<phase, now, timer, cycles, statuses, probeIn, clipboard, singleVars>>

RunPingHostSingle ==
    /\ probeOut.version = "none"
    /\ probeOut' = [version |-> "single", result |-> pingHostSingle(probeIn)]
    /\ UNCHANGED <<phase, now, timer, cycles, statuses, probeIn, clipboard, singleVars>>

NextProbe == RunPingHost \/ RunPingHostSingle

SpecProbe == InitProbe /\ [][NextProbe]_vars


(***************************************************************************)
(* The hook of the single-Pi version.  Its first render is Init, its       *)
(* effect cleanup is Unmount.                                              *)
(***************************************************************************)
multiVars == <<cycles, statuses, clipboard, probeIn, probeOut>>

UnstartedChecks == {c \in CheckIds : checks.calls[c] = "unstarted"}

NextCheckId == CHOOSE c \in UnstartedChecks : \A d \in UnstartedChecks : c <= d

\* checkPing() up to its await: the ping is spawned
checkPing(ch, c) == [ch EXCEPT !.calls[c] = "inflight"]

\* the useEffect body: checkPing(); setInterval(checkPing, 10000).
\* useFetch issues its request (execute: true) with the same commit.
MountSingle ==
    /\ phase = "rendered"
    /\ phase' = "mounted"
    /\ checks' = checkPing(checks, 1)
    /\ timer' = [armed |-> TRUE, nextFire |-> now + INTERVAL_MS_SINGLE]
    /\ UNCHANGED <<now, pingStatus, zigbee, multiVars>>

\* the interval fires: checkPing is called, and nothing else; the request
\* of useFetch is not issued again
TickSingle ==
    /\ timer.armed
    /\ now >= timer.nextFire
    /\ UnstartedChecks # {}
    /\ checks' = checkPing(checks, NextCheckId)
    /\ timer' = [timer EXCEPT !.nextFire = now + INTERVAL_MS_SINGLE]
    /\ UNCHANGED <<phase, now, pingStatus, zigbee, multiVars>>

\* the ping of call c of checkPing ends with outcome o: setPingStatus(result)
PingDoneSingle(c, o) ==
    /\ checks.calls[c] = "inflight"
    /\ pingStatus' = [success |-> pingHostSingle(o).success,
                      error |-> pingHostSingle(o).error]
    /\ checks' = [checks EXCEPT !.calls[c] = "done", !.shown = c]
    /\ UNCHANGED <<phase, now, timer, zigbee, multiVars>>

\* the request of useFetch ends with r: data is the parsed response, or
\* error is the error of the request
FetchDone(r) ==
    /\ phase = "mounted"
    /\ zigbee.isLoading
    /\ zigbee' = IF r.ok
                 THEN [isLoading |-> FALSE, data |-> parseResponse(r.body), error |-> NoError]
                 ELSE [isLoading |-> FALSE, data |-> zigbee.data,
                       error |-> [defined |-> TRUE, message |-> r.message]]
    /\ checks' = [checks EXCEPT !.fetched = 1]
    /\ UNCHANGED <<phase, now, timer, pingStatus, multiVars>>

\* one period of the single-Pi version passes
ElapseSingle ==
    /\ phase # "rendered"
    /\ (now + INTERVAL_MS_SINGLE) \div INTERVAL_MS_SINGLE <= MaxElapse
    /\ now' = now + INTERVAL_MS_SINGLE
    /\ UNCHANGED <<phase, timer, pingStatus, zigbee, checks, multiVars>>

NextSingle ==
    \/ MountSingle
    \/ TickSingle
    \/ Unmount
    \/ \E c \in CheckIds, o \in PollOutcomes : PingDoneSingle(c, o)
    \/ \E r \in FetchOutcomes : FetchDone(r)
    \/ ElapseSingle

SpecSingle == Init /\ [][NextSingle]_vars

(***************************************************************************)
(* The extension is built from one of the two versions of index.tsx: a run *)
(* is a run of the multi-Pi hook or a run of the single-Pi hook.           *)
(***************************************************************************)
NextVersions ==
    \/ checks = NoChecks /\ Next
    \/ cycles = [c \in CycleIds |-> IdleCycle] /\ NextSingle

SpecVersions == Init /\ [][NextVersions]_vars


(***************************************************************************)
(* Properties.                                                             *)
(***************************************************************************)
Published == {c \in CycleIds : cycles[c].status = "published"}

\* cycle c hands its results to setStatuses in this step
Publishes(c) == cycles[c].status = "inflight" /\ cycles'[c].status = "published"

\* the exec'd command did not report one answered packet
ProbeFails(o) ==
    \/ o.threw
    \/ o.stderr # {}
    \/ ~Includes(o.stdout, P_TRANSMITTED)
    \/ Includes(o.stdout, P_LOSS)

\* C1: at no reachable state are two poll cycles in flight at once, so no
\* target has two concurrent probes.
C1_NoOverlappingCycles == Cardinality(InFlight) <= 1

\* C2: across any two snapshots published one after the other, the
\* lastChecked of every target never moves backwards.
C2_LastCheckedMonotone ==
    [][\A i \in Targets : statuses'[i].lastChecked >= statuses[i].lastChecked]_vars

\* C3: no partial snapshots.  The statuses change only when a cycle
\* publishes, and a cycle publishes only when the probe of every registry
\* target of that cycle has settled; no probe of it is pending afterwards.
C3_NoPartialSnapshot ==
    [][/\ \A c \in CycleIds :
            Publishes(c) =>
                /\ \A i \in Targets : cycles'[c].slots[i].state = "fulfilled"
                /\ \A i \in Targets : cycles[c].slots[i].state \in {"fulfilled", "pending"}
                /\ Cardinality({i \in Targets : cycles[c].slots[i].state = "pending"}) = 1
       /\ statuses' # statuses => \E c \in CycleIds : Publishes(c)]_vars

\* a published snapshot whose probes settled at different times
C3_Witness ==
    \E c \in Published : \E i, j \in Targets :
        statuses[i].lastChecked < statuses[j].lastChecked

\* C4: after the effect cleanup (stop) no new cycle ever starts and the
\* timer is never armed again, while every probe of a cycle in flight at
\* that time can still complete.
C4_StopIsFinal ==
    /\ [](phase = "unmounted" =>
            /\ ~timer.armed
            /\ \A c \in InFlight : \A i \in Targets :
                 cycles[c].slots[i].state = "pending" =>
                    ENABLED (\E o \in PollOutcomes : ProbeDone(c, i, o)))
    /\ [][phase = "unmounted" =>
            /\ phase' = "unmounted"
            /\ ~timer'.armed
            /\ \A c \in CycleIds :
                 cycles[c].status = "unstarted" => cycles'[c].status = "unstarted"]_vars

\* stopped, a period after the start, with a ping of a cycle still pending
C4_Witness ==
    /\ phase = "unmounted"
    /\ now >= INTERVAL_MS
    /\ \E c \in InFlight : \E i \in Targets : cycles[c].slots[i].state = "pending"

\* C5: error isolation.  Whatever the outcome of a probe (a thrown ping
\* included), the cycle is not aborted, the failing target is recorded as
\* not reachable with the result its own probe returned, the results of the
\* other targets of the cycle are untouched, and the cycle publishes once
\* its last probe has settled.
C5_ErrorIsolation ==
    [][\A c \in CycleIds, i \in Targets :
         (cycles[c].slots[i].state = "pending" /\ cycles'[c].slots[i].state # "pending") =>
            \A o \in PollOutcomes :
              ProbeDone(c, i, o) =>
                /\ cycles'[c].status \in {"inflight", "published"}
                /\ LET mine == IF cycles'[c].status = "published"
                               THEN statuses'[i] ELSE cycles'[c].slots[i].value
                   IN  /\ ProbeFails(o) => ~mine.ping
                       /\ mine.ping = pingHost(o).success
                       /\ mine.error = pingHost(o).error
                       /\ mine.ip = RASPBERRY_PIS[i].ip
                /\ \A j \in Targets \ {i} :
                     IF cycles'[c].status = "published"
                     THEN statuses'[j] = cycles[c].slots[j].value
                     ELSE cycles'[c].slots[j] = cycles[c].slots[j]
                /\ (\A j \in Targets \ {i} : cycles[c].slots[j].state = "fulfilled")
                     => cycles'[c].status = "published"]_vars

\* a published snapshot in which one probe failed and another one succeeded
C5_Witness ==
    /\ Published # {}
    /\ \E i, j \in Targets :
         /\ statuses[i].ping
         /\ ~statuses[j].ping
         /\ statuses[j].error = MSG_CONNECTION

\* C6: whenever the ping output contains "100.0% packet loss", the probe
\* result is not reachable with the 'Pi is unreachable' message, whether the
\* command returned or threw.
C6_LossIsHostUnreachable ==
    (probeOut.version = "multi" /\ Includes(probeIn.stdout, P_LOSS)) =>
        /\ ~probeOut.result.success
        /\ probeOut.result.error = MSG_UNREACHABLE

\* C7: a probe (of either version) reports reachable exactly when the
\* command did not throw, stderr is empty, the output reports "1 packets
\* transmitted" and does not report 100% packet loss.
C7_SuccessIff ==
    probeOut.version # "none" =>
        (probeOut.result.success <=>
            /\ ~probeIn.threw
            /\ probeIn.stderr = {}
            /\ P_TRANSMITTED \in probeIn.stdout
            /\ P_LOSS \notin probeIn.stdout)

\* a probe of the single-Pi version that reported reachable
C7_Witness == probeOut.version = "single" /\ probeOut.result.success

\* C8: in every snapshot shown, the initial one included, the online count
\* of the title is the number of targets whose status has ping = TRUE and
\* the total is the number of registry targets.
C8_OnlineCount ==
    /\ Command(statuses).title.online = Cardinality({i \in DOMAIN statuses : statuses[i].ping})
    /\ Command(statuses).title.total = Len(RASPBERRY_PIS)

\* a published snapshot with some, but not all, targets online
C8_Witness ==
    /\ Published # {}
    /\ Command(statuses).title.online >= 1
    /\ Command(statuses).title.online < Command(statuses).title.total

\* C9: every snapshot lists exactly one status per registry target, in
\* registry order, whatever the order in which the probes settled.
C9_RegistryOrder ==
    /\ DOMAIN statuses = DOMAIN RASPBERRY_PIS
    /\ \A i \in DOMAIN statuses :
         /\ statuses[i].ip = RASPBERRY_PIS[i].ip
         /\ statuses[i].name = RASPBERRY_PIS[i].name

\* a published snapshot whose second target settled before its first
C9_Witness ==
    /\ Published # {}
    /\ statuses[2].lastChecked < statuses[1].lastChecked

\* C10: in every state shown, each offline target carries a
\* troubleshooting string and each online target carries no error.
C10_ErrorMatchesPing ==
    \A i \in DOMAIN statuses :
        IF statuses[i].ping
        THEN statuses[i].error = Undefined
        ELSE statuses[i].error \in TroubleshootingStrings


\* status.copyFeedbackActive as the presentation layer reads it: a property
\* that a status object does not carry is undefined, which is falsy
CopyFeedbackActive(status) ==
    IF "copyFeedbackActive" \in DOMAIN status THEN status.copyFeedbackActive ELSE FALSE

\* the copy action for target i acts in this step
Copies(i) == clipboard' = RASPBERRY_PIS[i].ip /\ clipboard' # clipboard

\* C11: field isolation.  Once copy feedback was recorded for a target (its
\* address is the one just copied), a poll cycle that publishes leaves
\* copyFeedbackActive of that target true.
C11_MergeKeepsCopyFeedback ==
    [][\A i \in Targets :
         (clipboard = RASPBERRY_PIS[i].ip /\ \E c \in CycleIds : Publishes(c))
            => CopyFeedbackActive(statuses'[i])]_vars

\* C12: the copy action makes copyFeedbackActive of the copied address true
\* right after the copy side effect.
C12_CopySetsFeedback ==
    [][\A i \in Targets : Copies(i) => CopyFeedbackActive(statuses'[i])]_vars

\* C20: the copy action changes no target's ping, error or lastChecked,
\* starts no cycle and neither arms nor clears the polling timer, in whatever
\* state it is invoked.
C20_CopyLeavesPolledState ==
    [][clipboard' # clipboard =>
          /\ statuses' = statuses
          /\ cycles' = cycles
          /\ timer' = timer
          /\ phase' = phase]_vars

\* an address was copied while the first cycle was still in flight, a period
\* after the start, with the timer armed
C20_Witness ==
    /\ clipboard # NoCopy
    /\ cycles[1].status = "inflight"
    /\ timer.armed
    /\ now >= INTERVAL_MS

\* C13: whenever the status of the single-Pi version shows both a ping
\* result and a service-check result, the two were obtained in the same
\* poll cycle.
C13_SameCycle ==
    (checks.shown > 0 /\ checks.fetched > 0) => checks.shown = checks.fetched

\* the service check as the status shows it
Service == StatusSingle(pingStatus, zigbee).zigbee2mqtt

\* C14: once the HTTP check ended, the service is shown reachable exactly
\* when the request returned without error and the body contains
\* "Zigbee2MQTT"; an error gives not reachable with the message of the error
\* retained; and a ping result, success or failure, never changes what is
\* shown of the service.
C14_ServicePresence ==
    [][/\ \A r \in FetchOutcomes :
            FetchDone(r) =>
                LET shown == StatusSingle(pingStatus', zigbee').zigbee2mqtt
                IN  /\ shown.reachable <=> (r.ok /\ P_ZIGBEE \in r.body)
                    /\ ~r.ok => (~shown.reachable /\ shown.error = r.message)
                    /\ r.ok => shown.error = Undefined
       /\ pingStatus' # pingStatus =>
            StatusSingle(pingStatus', zigbee').zigbee2mqtt = Service]_vars

\* the service is shown reachable while the ping of the same target failed
C14_Witness ==
    /\ Service.reachable
    /\ checks.shown > 0
    /\ ~pingStatus.success

\* cycle c of the multi-Pi version, call c of the single-Pi version, starts
\* in this step
Starts(c) == cycles[c].status = "unstarted" /\ cycles'[c].status # "unstarted"
StartsSingle(c) == checks.calls[c] = "unstarted" /\ checks'.calls[c] # "unstarted"

\* the interval is armed, or fires and is due again one period later
Fires(period) ==
    /\ timer.armed /\ now >= timer.nextFire
    /\ timer'.armed /\ timer'.nextFire = now + period
Arms(period) ==
    /\ phase = "rendered" /\ phase' = "mounted" /\ now' = now
    /\ ~timer.armed /\ timer'.armed /\ timer'.nextFire = now + period

\* C15: the start of the hook begins the first cycle in the same step, with
\* no clock advance; every tick of the interval (100 s in the multi-Pi
\* version, 10 s in the single-Pi version) begins exactly one cycle and is
\* due again one period later; and a cycle begins at no other step.
C15_CycleStarts ==
    [][/\ (phase = "rendered" /\ phase' # "rendered") =>
             \/ Arms(INTERVAL_MS) /\ Starts(1)
             \/ Arms(INTERVAL_MS_SINGLE) /\ StartsSingle(1)
       /\ (timer.armed /\ timer'.armed /\ timer' # timer) =>
             \/ Fires(INTERVAL_MS) /\ Cardinality({c \in CycleIds : Starts(c)}) = 1
             \/ Fires(INTERVAL_MS_SINGLE) /\ Cardinality({c \in CheckIds : StartsSingle(c)}) = 1
       /\ \A c \in CycleIds :
             Starts(c) => IF c = 1 THEN Arms(INTERVAL_MS) ELSE Fires(INTERVAL_MS)
       /\ \A c \in CheckIds :
             StartsSingle(c) =>
                IF c = 1 THEN Arms(INTERVAL_MS_SINGLE) ELSE Fires(INTERVAL_MS_SINGLE)]_vars

\* the second cycle was begun by the tick one period after the start
C15_Witness ==
    /\ cycles[1].status # "unstarted"
    /\ cycles[2].status # "unstarted"
    /\ timer.armed
    /\ now = INTERVAL_MS
    /\ timer.nextFire = now + INTERVAL_MS

\* the raw text of a failed probe: what the command wrote and, when exec
\* rejected, the message of its error
RawText(o) == o.stdout \cup o.stderr \cup o.message

\* the precedence of getReadableError applied to a raw text
Classify(text) ==
    IF Includes(text, P_LOSS) THEN MSG_UNREACHABLE
    ELSE IF Includes(text, P_NOT_FOUND) THEN MSG_NO_PING
    ELSE IF Includes(text, P_NAME_UNKNOWN) THEN MSG_INVALID_IP
    ELSE MSG_CONNECTION

\* C16: every failed probe of the multi-Pi version carries the message that
\* the precedence (total loss, then "command not found", then "Name or
\* service not known", then the default) gives for its raw text, whether
\* the command threw or returned normally with text on stderr.
C16_ClassificationPrecedence ==
    (probeOut.version = "multi" /\ ~probeOut.result.success) =>
        probeOut.result.error = Classify(RawText(probeIn))

\* C17: given that every ping eventually returns or throws, every cycle that
\* starts eventually publishes: a cycle in flight stays in flight until it
\* publishes, and again and again no cycle is in flight.  A publish, also
\* one in which every probe failed, shows the number of answering targets
\* (0 of N then) and leaves the lifecycle and the timer as they are, so later
\* ticks still start cycles.
C17_EveryCyclePublishes ==
    /\ []<>(InFlight = {})
    /\ [][\A c \in CycleIds :
            /\ cycles[c].status = "inflight" =>
                  cycles'[c].status \in {"inflight", "published"}
            /\ Publishes(c) =>
                  /\ timer' = timer
                  /\ phase' = phase
                  /\ (\A i \in Targets : ~statuses'[i].ping)
                        => Command(statuses').title = [online |-> 0, total |-> NumPis]]_vars

\* the first cycle published with every target offline, and the tick after
\* it started the second cycle
C17_Witness ==
    /\ cycles[1].status = "published"
    /\ \A i \in Targets : ~statuses[i].ping /\ statuses[i].error = MSG_CONNECTION
    /\ Command(statuses).title.online = 0
    /\ cycles[2].status = "inflight"
    /\ \A i \in Targets : cycles[2].slots[i].state = "pending"

\* the targets of cycle c whose ping is spawned, and whose ping ends, in this step
Spawned(c) ==
    {i \in Targets : cycles[c].slots[i].state = "idle" /\ cycles'[c].slots[i].state = "pending"}
Ended(c) ==
    {i \in Targets : cycles[c].slots[i].state = "pending" /\ cycles'[c].slots[i].state # "pending"}

\* C18: within one cycle each target is probed exactly once.  The start of
\* a cycle spawns one ping per target; every later step of the cycle ends
\* exactly one pending ping, whatever its outcome, and spawns none; a ping
\* that ended, failed or not, is never pending again in that cycle.
C18_ProbedOncePerCycle ==
    [][\A c \in CycleIds :
         /\ Starts(c) => Spawned(c) = Targets
         /\ ~Starts(c) => Spawned(c) = {}
         /\ (cycles[c].status # "unstarted" /\ cycles'[c] # cycles[c]) =>
               Cardinality(Ended(c)) = 1
         /\ \A i \in Targets :
               cycles[c].slots[i].state \in {"fulfilled", "rejected"} =>
                  cycles'[c].slots[i].state = cycles[c].slots[i].state]_vars

\* the ping of the first target failed in the first cycle, which published;
\* its next ping is the one of the second cycle
C18_Witness ==
    /\ cycles[1].status = "published"
    /\ ~statuses[1].ping
    /\ cycles[2].status = "inflight"
    /\ cycles[2].slots[1].state = "pending"

\* C19: a published snapshot is the result array of the one cycle that
\* publishes: for every target the value that cycle's own probe of the
\* target resolved with (the probe that ends in the publishing step
\* included), also while another cycle is in flight; nothing of the snapshot
\* shown before, or of another cycle, is kept.
C19_SnapshotOfOneCycle ==
    [][\A c \in CycleIds :
         Publishes(c) =>
            \A i \in Targets :
               IF cycles[c].slots[i].state = "fulfilled"
               THEN statuses'[i] = cycles[c].slots[i].value
               ELSE \E o \in PollOutcomes :
                       /\ ProbeDone(c, i, o)
                       /\ statuses'[i] = StatusOf(RASPBERRY_PIS[i], pingHost(o), now)]_vars

\* the second cycle published while the first, begun a period earlier, is
\* in flight and holds a result that the snapshot does not show
C19_Witness ==
    /\ cycles[2].status = "published"
    /\ cycles[1].status = "inflight"
    /\ \E i \in Targets :
         /\ cycles[1].slots[i].state = "fulfilled"
         /\ cycles[1].slots[i].value # statuses[i]

====
